---- MODULE Spec2Model ----
(***************************************************************************)
(* LogChannel (src/logchannel.ts): a module-level singleton that keeps a   *)
(* list of active channel names and writes a record to a console sink only *)
(* for calls on an active channel.                                         *)
(*                                                                         *)
(* A JavaScript string is modelled as a sequence of one-character strings, *)
(* so that trim, split and toUpperCase are computed character by           *)
(* character.  Arrays live in a small heap of references, so that the      *)
(* array handed out by getActiveChannels and the module's own array are    *)
(* the same or different objects as the code makes them.                   *)
(***************************************************************************)
EXTENDS Integers, Sequences, FiniteSets, TLC

(* ------------------------------ bounds --------------------------------- *)
\* longest channel string enumerated exhaustively (SpecSet)
MaxLen == 2
\* longest LOG_CHANNELS value enumerated exhaustively (SpecInit)
MaxEnvLen == 7
\* longest array handed to setChannel
MaxChannels == 2
\* most message values in one log / error / debug call
MaxMessages == 2
\* longest array a caller grows a returned copy to
MaxReturned == 3

(* ---------------------------- characters ------------------------------- *)
\* the characters strings are built from: a lower-case letter, its
\* upper-case form, a blank and the separator of LOG_CHANNELS
Char == {"a", "A", " ", ","}

\* characters String.prototype.trim removes (those that occur in the model)
WhiteSpace == {" ", "\t", "\n"}

\* String.prototype.toUpperCase on the letters that occur in the model
UpperOf == [a |-> "A", d |-> "D", e |-> "E", f |-> "F", l |-> "L", t |-> "T", u |-> "U"]

\* all strings of at most n characters drawn from C
StrUpTo(C, n) == UNION {[1..k -> C] : k \in 0..n}

\* all arrays of at most n elements drawn from S
ArrUpTo(S, n) == UNION {[1..k -> S] : k \in 0..n}

(* ------------------------- string operations --------------------------- *)
RECURSIVE trimStart(_)
trimStart(s) ==
    IF s # <<>> /\ Head(s) \in WhiteSpace THEN trimStart(Tail(s)) ELSE s

RECURSIVE trimEnd(_)
trimEnd(s) ==
    IF s # <<>> /\ s[Len(s)] \in WhiteSpace
    THEN trimEnd(SubSeq(s, 1, Len(s) - 1))
    ELSE s

\* ch.trim()
trim(s) == trimEnd(trimStart(s))

\* channelsFromEnv.split(','): the pieces between separators, at least one
RECURSIVE split(_, _)
split(s, sep) ==
    IF \E i \in 1..Len(s) : s[i] = sep
    THEN LET i == CHOOSE j \in 1..Len(s) :
                      s[j] = sep /\ \A k \in 1..(j - 1) : s[k] # sep
         IN  <<SubSeq(s, 1, i - 1)>> \o split(SubSeq(s, i + 1, Len(s)), sep)
    ELSE <<s>>

\* channel.toUpperCase()
toUpperCase(s) ==
    [i \in 1..Len(s) |-> IF s[i] \in DOMAIN UpperOf THEN UpperOf[s[i]] ELSE s[i]]

\* slip: trimEnd() where trim() is meant
mapTrim_endOnly(arr) == [i \in 1..Len(arr) |-> trimEnd(arr[i])]

\* .map(ch => ch.trim())
mapTrim(arr) == [i \in 1..Len(arr) |-> trim(arr[i])]

\* .filter(ch => ch !== "")
filterNonEmpty(arr) == SelectSeq(arr, LAMBDA ch : ch # <<>>)

\* activeChannels.includes(channel)
includes(arr, x) == \E i \in 1..Len(arr) : arr[i] = x

\* the string "default"
Default == <<"d", "e", "f", "a", "u", "l", "t">>

(* ------------------------------- state --------------------------------- *)
VARIABLES
    pc,              \* "load" before the module body has run, "ready" after
    env,             \* the LOG_CHANNELS state of the process environment
    heap,            \* the arrays, by reference
    activeChannels,  \* the reference held by the closure variable
    returned,        \* the reference a caller holds from getActiveChannels
    call,            \* the most recent operation and its arguments
    console          \* what the most recent operation wrote, per sink

vars == <<pc, env, heap, activeChannels, returned, call, console>>

Refs == 1..2
Null == 0

\* the array the closure variable refers to
Active == IF activeChannels = Null THEN <<>> ELSE heap[activeChannels]

\* a reference no live variable in `held` uses
Fresh(held) == CHOOSE r \in Refs : r \notin held /\ \A q \in Refs \ held : r <= q

\* the heap with array a stored at r and everything unreachable dropped
Store(r, a, live) ==
    [q \in Refs |-> IF q = r THEN a ELSE IF q \in live THEN heap[q] ELSE <<>>]

Sinks == {"log", "error", "debug"}
Silent == [s \in Sinks |-> <<>>]

\* Deno.env.get("LOG_CHANNELS") throws, returns undefined, or returns a string
EnvThrows == [kind |-> "throws", value |-> <<>>]
EnvUnset == [kind |-> "unset", value |-> <<>>]
EnvSet(s) == [kind |-> "set", value |-> s]

InitWith(envs) ==
    /\ pc = "load"
    /\ env \in envs
    /\ heap = [r \in Refs |-> <<>>]
    /\ activeChannels = Null
    /\ returned = Null
    /\ call = [op |-> "none"]
    /\ console = Silent

(* ----------------------------- operations ------------------------------ *)
\* slip: no fallback when every piece is dropped
initList_noFallback(e) ==
    IF e.kind = "throws" THEN <<Default>>
    ELSE IF e.kind = "set" /\ e.value # <<>> /\ trim(e.value) # <<>>
    THEN filterNonEmpty(mapTrim(split(e.value, ",")))
    ELSE <<Default>>

\* the list initChannels assigns for an environment state
initList(e) ==
    IF e.kind = "throws" THEN <<Default>>
    ELSE IF e.kind = "set" /\ e.value # <<>> /\ trim(e.value) # <<>>
    THEN LET parsed == filterNonEmpty(mapTrim(split(e.value, ",")))
         IN  IF Len(parsed) = 0 THEN <<Default>> ELSE parsed
    ELSE <<Default>>

initChannels ==
    /\ pc = "load"
    /\ pc' = "ready"
    /\ LET r == Fresh({})
       IN  /\ heap' = Store(r, initList(env), {})
           /\ activeChannels' = r
    /\ call' = [op |-> "initChannels"]
    /\ console' = Silent
    /\ UNCHANGED <<env, returned>>

\* a setChannel argument: a single string or an array of strings
Single(s) == [isArray |-> FALSE, val |-> s]
Array(a) == [isArray |-> TRUE, val |-> a]

\* slip: empty elements dropped before trimming instead of after
setList_filterFirst(channels) ==
    IF channels.isArray
    THEN mapTrim(filterNonEmpty(channels.val))
    ELSE LET trimmedChannel == trim(channels.val)
         IN  IF trimmedChannel # <<>> THEN <<trimmedChannel>> ELSE <<>>

\* slip: the fallback of initChannels copied into setChannel
setList_fallback(channels) ==
    LET parsed == IF channels.isArray
                  THEN filterNonEmpty(mapTrim(channels.val))
                  ELSE filterNonEmpty(<<trim(channels.val)>>)
    IN  IF Len(parsed) = 0 THEN <<Default>> ELSE parsed

\* the list setChannel assigns for an argument
setList(channels) ==
    IF channels.isArray
    THEN filterNonEmpty(mapTrim(channels.val))
    ELSE LET trimmedChannel == trim(channels.val)
         IN  IF trimmedChannel # <<>> THEN <<trimmedChannel>> ELSE <<>>

\* slip: the new channels appended to the old ones
setChannel_merge(channels) ==
    /\ pc = "ready"
    /\ LET r == Fresh({returned})
       IN  /\ heap' = Store(r, Active \o setList(channels), {returned})
           /\ activeChannels' = r
    /\ call' = [op |-> "setChannel", channels |-> channels]
    /\ console' = Silent
    /\ UNCHANGED <<pc, env, returned>>

setChannel(channels) ==
    /\ pc = "ready"
    /\ LET r == Fresh({returned})
       IN  /\ heap' = Store(r, setList(channels), {returned})
           /\ activeChannels' = r
    /\ call' = [op |-> "setChannel", channels |-> channels]
    /\ console' = Silent
    /\ UNCHANGED <<pc, env, returned>>

\* the logType argument: absent, "ERROR" or "DEBUG"
NoType == <<>>
ERROR == <<"E", "R", "R", "O", "R">>
DEBUG == <<"D", "E", "B", "U", "G">>

\* slip: the channel not upper-cased
prefixOf_raw(channel, logType) ==
    IF logType # NoType
    THEN <<"[">> \o channel \o <<":">> \o logType \o <<"]">>
    ELSE <<"[">> \o channel \o <<"]">>

\* the prefix _processLogEvent builds
prefixOf(channel, logType) ==
    IF logType # NoType
    THEN <<"[">> \o toUpperCase(channel) \o <<":">> \o logType \o <<"]">>
    ELSE <<"[">> \o toUpperCase(channel) \o <<"]">>

\* slip: no check that there are messages
processLogEvent_anyMessages(outputFn, channel, messages, logType) ==
    /\ pc = "ready"
    /\ console' =
           IF includes(Active, channel)
           THEN [Silent EXCEPT ![outputFn] =
                    <<[prefix |-> prefixOf(channel, logType), messages |-> messages]>>]
           ELSE Silent
    /\ UNCHANGED <<pc, env, heap, activeChannels, returned>>

\* slip: the channel trimmed before the membership check
processLogEvent_trimmed(outputFn, channel, messages, logType) ==
    /\ pc = "ready"
    /\ console' =
           IF Len(messages) > 0 /\ includes(Active, trim(channel))
           THEN [Silent EXCEPT ![outputFn] =
                    <<[prefix |-> prefixOf(channel, logType), messages |-> messages]>>]
           ELSE Silent
    /\ UNCHANGED <<pc, env, heap, activeChannels, returned>>

\* slip: the environment read again on every call
processLogEvent_reread(outputFn, channel, messages, logType) ==
    /\ pc = "ready"
    /\ heap' = Store(activeChannels, initList(env), {returned})
    /\ console' =
           IF Len(messages) > 0 /\ includes(initList(env), channel)
           THEN [Silent EXCEPT ![outputFn] =
                    <<[prefix |-> prefixOf(channel, logType), messages |-> messages]>>]
           ELSE Silent
    /\ UNCHANGED <<pc, env, activeChannels, returned>>

\* _processLogEvent: outputFn(prefix, ...messages) when the call fires
processLogEvent(outputFn, channel, messages, logType) ==
    /\ pc = "ready"
    /\ console' =
           IF Len(messages) > 0 /\ includes(Active, channel)
           THEN [Silent EXCEPT ![outputFn] =
                    <<[prefix |-> prefixOf(channel, logType), messages |-> messages]>>]
           ELSE Silent
    /\ UNCHANGED <<pc, env, heap, activeChannels, returned>>

log(channel, messages) ==
    /\ processLogEvent("log", channel, messages, NoType)
    /\ call' = [op |-> "log", channel |-> channel, messages |-> messages]

error(channel, messages) ==
    /\ processLogEvent("error", channel, messages, ERROR)
    /\ call' = [op |-> "error", channel |-> channel, messages |-> messages]

debug(channel, messages) ==
    /\ processLogEvent("debug", channel, messages, DEBUG)
    /\ call' = [op |-> "debug", channel |-> channel, messages |-> messages]

\* slip: the module's own array handed out
getActiveChannels_alias ==
    /\ pc = "ready"
    /\ returned' = activeChannels
    /\ call' = [op |-> "getActiveChannels"]
    /\ console' = Silent
    /\ UNCHANGED <<pc, env, heap, activeChannels>>

\* [...activeChannels]: a new array with the same elements
getActiveChannels ==
    /\ pc = "ready"
    /\ LET r == Fresh({activeChannels})
       IN  /\ heap' = Store(r, Active, {activeChannels})
           /\ returned' = r
    /\ call' = [op |-> "getActiveChannels"]
    /\ console' = Silent
    /\ UNCHANGED <<pc, env, activeChannels>>

\* the caller changes the array it got from getActiveChannels
mutateReturned(a) ==
    /\ pc = "ready"
    /\ returned # Null
    /\ heap' = [heap EXCEPT ![returned] = a]
    /\ call' = [op |-> "mutate"]
    /\ console' = Silent
    /\ UNCHANGED <<pc, env, activeChannels, returned>>

returnedPush(v) ==
    /\ returned # Null
    /\ Len(heap[returned]) < MaxReturned
    /\ mutateReturned(Append(heap[returned], v))

returnedPop ==
    /\ returned # Null
    /\ heap[returned] # <<>>
    /\ mutateReturned(SubSeq(heap[returned], 1, Len(heap[returned]) - 1))

returnedWrite(i, v) ==
    /\ returned # Null
    /\ i \in 1..Len(heap[returned])
    /\ mutateReturned([heap[returned] EXCEPT ![i] = v])

\* the process environment changes after the module has loaded
setEnv(e) ==
    /\ pc = "ready"
    /\ env' = e
    /\ UNCHANGED <<pc, heap, activeChannels, returned, call, console>>

(* ------------------------------ inputs --------------------------------- *)
\* channel strings: empty, blank, a tab, plain, upper-case, padded, with a comma
Names ==
    {<<>>, <<" ">>, <<"\t">>, <<"a">>, <<"A">>, <<" ", "a">>, <<"a", " ">>,
     <<"a", ",", "A">>}

\* elements of the arrays handed to setChannel
ArrNames == {<<" ">>, <<"a">>, <<"A">>, <<" ", "a">>}

\* channel arguments of log / error / debug
LogNames == Names \cup {Default}

\* opaque message values
Msg == {"m1", "m2"}
MsgLists == ArrUpTo(Msg, MaxMessages)

\* setChannel arguments
SetInputs ==
    {Single(s) : s \in Names} \cup {Array(a) : a \in ArrUpTo(ArrNames, MaxChannels)}

\* LOG_CHANNELS states: unset, " , " and "a, A ,a"
EnvSamples ==
    {EnvUnset, EnvSet(<<" ", ",", " ">>),
     EnvSet(<<"a", ",", " ", "A", " ", ",", "a">>)}

(* --------------------------- specifications ---------------------------- *)
\* every string and every array of strings within the bounds
AllInputs ==
    {Single(s) : s \in StrUpTo(Char, MaxLen)}
        \cup {Array(a) : a \in ArrUpTo(StrUpTo(Char, MaxLen), MaxChannels)}

\* setChannel as the first call after loading, on every input
NextSet ==
    \/ initChannels
    \/ call.op = "initChannels" /\ \E x \in AllInputs : setChannel(x)

SpecSet == InitWith({EnvUnset}) /\ [][NextSet]_vars

\* loading the module under every environment state
AllEnv == {EnvThrows, EnvUnset} \cup {EnvSet(s) : s \in StrUpTo(Char, MaxEnvLen)}

NextInit == initChannels

SpecInit == InitWith(AllEnv) /\ [][NextInit]_vars

\* the calls that write to the console, on sampled inputs
NextLog ==
    \/ initChannels
    \/ \E x \in SetInputs : setChannel(x)
    \/ \E c \in LogNames, m \in MsgLists : log(c, m)
    \/ \E c \in LogNames, m \in MsgLists : error(c, m)
    \/ \E c \in LogNames, m \in MsgLists : debug(c, m)

SpecLog == InitWith(EnvSamples) /\ [][NextLog]_vars

\* the whole interface with a caller that keeps and changes the returned
\* array, and an environment that changes after loading, on few inputs
FewNames == {<<" ">>, <<"a">>}
FewInputs ==
    {Single(s) : s \in {<<>>, <<" ">>, <<"a">>, <<" ", "a">>}}
        \cup {Array(a) : a \in ArrUpTo(FewNames, MaxChannels)}
FewLogNames == {<<"a">>, <<" ", "a">>, Default}
FewEnv == {EnvUnset, EnvSet(<<" ", ",", " ">>), EnvSet(<<"a", ",", " ", "A">>)}
FewMsgLists == ArrUpTo({"m1"}, MaxMessages)
Written == {<<"A">>, <<" ">>}

Next ==
    \/ initChannels
    \/ \E x \in FewInputs : setChannel(x)
    \/ \E c \in FewLogNames, m \in FewMsgLists : log(c, m)
    \/ \E c \in FewLogNames, m \in FewMsgLists : error(c, m)
    \/ \E c \in FewLogNames, m \in FewMsgLists : debug(c, m)
    \/ getActiveChannels
    \/ \E v \in Written : returnedPush(v)
    \/ returnedPop
    \/ \E i \in 1..MaxReturned, v \in Written : returnedWrite(i, v)
    \/ \E e \in FewEnv : setEnv(e)

Spec == InitWith(FewEnv) /\ [][Next]_vars

(* ------------------------- reference definitions ----------------------- *)
LogOps == {"log", "error", "debug"}

\* the number of records the most recent operation wrote
Emitted == Len(console["log"]) + Len(console["error"]) + Len(console["debug"])

\* the positions of s that hold a non-blank character
Solid(s) == {i \in 1..Len(s) : s[i] \notin WhiteSpace}

\* s without its leading and trailing blanks, by positions
Trimmed(s) ==
    IF Solid(s) = {} THEN <<>>
    ELSE LET lo == CHOOSE i \in Solid(s) : \A j \in Solid(s) : i <= j
             hi == CHOOSE i \in Solid(s) : \A j \in Solid(s) : j <= i
         IN  SubSeq(s, lo, hi)

\* the trimmed elements of arr that are not empty, in order
RECURSIVE Kept(_)
Kept(arr) ==
    IF arr = <<>> THEN <<>>
    ELSE (IF Trimmed(Head(arr)) = <<>> THEN <<>> ELSE <<Trimmed(Head(arr))>>)
             \o Kept(Tail(arr))

\* the pieces of s between commas, by the positions of the commas
Pieces(s) ==
    LET cuts == {0, Len(s) + 1} \cup {i \in 1..Len(s) : s[i] = ","}
        nth(k) == CHOOSE b \in cuts : Cardinality({x \in cuts : x < b}) = k - 1
    IN  [k \in 1..(Cardinality(cuts) - 1) |-> SubSeq(s, nth(k) + 1, nth(k + 1) - 1)]

\* the elements of a setChannel argument
Elements(channels) == IF channels.isArray THEN channels.val ELSE <<channels.val>>

\* a setChannel argument with no non-blank channel
Blank(channels) == Kept(Elements(channels)) = <<>>

\* a string in upper case, letter by letter
Upper(s) ==
    [i \in 1..Len(s) |->
        CASE s[i] = "a" -> "A" [] s[i] = "d" -> "D" [] s[i] = "e" -> "E"
          [] s[i] = "f" -> "F" [] s[i] = "l" -> "L" [] s[i] = "t" -> "T"
          [] s[i] = "u" -> "U" [] OTHER -> s[i]]

\* what follows the channel in the prefix of each operation
Suffix(op) ==
    CASE op = "log" -> <<>>
      [] op = "error" -> <<":", "E", "R", "R", "O", "R">>
      [] op = "debug" -> <<":", "D", "E", "B", "U", "G">>

\* how often x occurs in arr
Occurrences(arr, x) == Cardinality({i \in 1..Len(arr) : arr[i] = x})

(* ------------------------------- claims -------------------------------- *)
\* C1: a log, error or debug call writes exactly one record if it has at
\* least one message and its channel is, character for character, an element
\* of the active list; otherwise it writes nothing.
C1_EmitsIffActive ==
    call.op \in LogOps =>
        IF call.messages # <<>> /\ Occurrences(Active, call.channel) >= 1
        THEN Emitted = 1
        ELSE Emitted = 0

\* a call on a channel that is twice in the active list wrote one record
C1_Witness ==
    /\ call.op \in LogOps
    /\ Occurrences(Active, call.channel) = 2
    /\ Emitted = 1

\* C2: right after setChannel the active list holds nothing but the trimmed
\* elements of that call's argument, and no more entries than the argument
\* has: nothing of the initial list or of an earlier call is left.
C2_FullReplace ==
    call.op = "setChannel" =>
        /\ Len(Active) <= Len(Elements(call.channels))
        /\ \A i \in 1..Len(Active) :
               \E j \in 1..Len(Elements(call.channels)) :
                   Active[i] = Trimmed(Elements(call.channels)[j])
        /\ (call.channels = Single(<<"A">>) => Active = <<(<<"A">>)>>)

\* loaded with "a, A ,a", then setChannel("A"): the list is exactly ["A"]
C2_Witness ==
    /\ env = EnvSet(<<"a", ",", " ", "A", " ", ",", "a">>)
    /\ call.op = "setChannel"
    /\ call.channels = Single(<<"A">>)
    /\ Active = <<(<<"A">>)>>

\* C3: setChannel on an array yields its trimmed elements without the empty
\* ones, in order and with duplicates; on a single string, the one-element
\* list of its trimmed form, or the empty list when that is empty.
C3_SetChannelResult ==
    call.op = "setChannel" =>
        Active = IF call.channels.isArray
                 THEN Kept(call.channels.val)
                 ELSE IF Trimmed(call.channels.val) # <<>>
                      THEN <<Trimmed(call.channels.val)>>
                      ELSE <<>>

\* two different padded spellings of one name leave that name twice
C3_Witness ==
    /\ call.op = "setChannel"
    /\ call.channels.isArray
    /\ Len(call.channels.val) = 2
    /\ call.channels.val[1] # call.channels.val[2]
    /\ Len(Active) = 2
    /\ Active[1] = Active[2]

\* C4: loading yields ["default"] when the read fails, the variable is unset
\* or no comma-separated piece is non-blank, and otherwise the trimmed
\* non-empty pieces in order with duplicates; the list is never empty.
C4_InitResult ==
    pc = "ready" =>
        /\ Active = IF env.kind # "set" \/ Kept(Pieces(env.value)) = <<>>
                    THEN <<Default>>
                    ELSE Kept(Pieces(env.value))
        /\ Active # <<>>

\* LOG_CHANNELS = "a, a" was parsed into ["a", "a"]
C4_Witness ==
    /\ pc = "ready"
    /\ env = EnvSet(<<"a", ",", " ", "a">>)
    /\ Active = <<(<<"a">>), (<<"a">>)>>

\* C5: every element of the active list is non-empty and has no blank at
\* either end.
C5_ElementsTrimmed ==
    \A i \in 1..Len(Active) :
        /\ Active[i] # <<>>
        /\ Active[i][1] \notin WhiteSpace
        /\ Active[i][Len(Active[i])] \notin WhiteSpace

\* an array with a padded element was set and its trimmed form is active
C5_Witness ==
    /\ call.op = "setChannel"
    /\ call.channels.isArray
    /\ \E j \in 1..Len(call.channels.val) : call.channels.val[j] = <<" ", "a">>
    /\ Occurrences(Active, <<"a">>) >= 1

\* C6: a setChannel with no non-blank channel empties the list; while the
\* list is empty getActiveChannels returns the empty list and no call
\* writes anything, until a setChannel with a non-blank channel.
C6_ClearedStaysSilent ==
    [][ /\ (call'.op = "setChannel" /\ Blank(call'.channels) => Active' = <<>>)
        /\ (pc = "ready" /\ Active = <<>> =>
               \/ Active' = <<>> /\ Emitted' = 0
               \/ call'.op = "setChannel" /\ ~Blank(call'.channels))
        /\ (Active' = <<>> /\ call'.op = "getActiveChannels" =>
               heap'[returned'] = <<>>) ]_vars

\* a call with a message on the cleared list wrote nothing
C6_Witness ==
    /\ pc = "ready"
    /\ Active = <<>>
    /\ call.op \in LogOps
    /\ call.messages # <<>>
    /\ Emitted = 0

\* C7: getActiveChannels returns an array of its own that equals the active
\* list, and no change the caller makes to it changes the active list.
C7_CopyIsolated ==
    [][ /\ (call'.op = "getActiveChannels" =>
               /\ heap'[returned'] = Active'
               /\ Active' = Active)
        /\ (returned' # Null => returned' # activeChannels')
        /\ (call'.op = "mutate" => Active' = Active) ]_vars

\* the caller has changed its copy, which now differs from the active list
C7_Witness ==
    /\ call.op = "mutate"
    /\ returned # Null
    /\ heap[returned] # Active

\* C8: a call that fires writes one record to its own sink, the prefix
\* "[" + upper-cased channel + suffix + "]" followed by the messages in
\* order; no call writes to another sink.
C8_RecordAndSink ==
    /\ \A s \in Sinks : s # call.op => console[s] = <<>>
    /\ (call.op \in LogOps /\ Emitted > 0 =>
           console[call.op] =
               <<[prefix |-> <<"[">> \o Upper(call.channel) \o Suffix(call.op) \o <<"]">>,
                  messages |-> call.messages]>>)

\* error("a", "m2", "m1") wrote [A:ERROR] m2 m1 to the error sink
C8_Witness ==
    /\ call.op = "error"
    /\ console["error"] =
           <<[prefix |-> <<"[", "A", ":", "E", "R", "R", "O", "R", "]">>,
              messages |-> <<"m2", "m1">>]>>

\* C9 as stated: a call whose channel has a blank at either end writes
\* nothing, and a call whose channel differs only in letter case from an
\* active entry writes nothing.
C9_AsStated ==
    call.op \in LogOps =>
        /\ (call.channel # Trimmed(call.channel) => Emitted = 0)
        /\ ((\E i \in 1..Len(Active) :
                /\ Active[i] # call.channel
                /\ Upper(Active[i]) = Upper(call.channel)) => Emitted = 0)

\* C9 as amended: a call whose channel has a blank at either end writes
\* nothing, and a call whose channel differs only in letter case from an
\* active entry and is itself no element of the active list writes nothing.
C9_RawMembership ==
    call.op \in LogOps =>
        /\ (call.channel # Trimmed(call.channel) => Emitted = 0)
        /\ ((/\ Occurrences(Active, call.channel) = 0
             /\ \E i \in 1..Len(Active) :
                    Upper(Active[i]) = Upper(call.channel)) => Emitted = 0)

\* a call on " a" with a message wrote nothing although "a" is active
C9_Witness ==
    /\ call.op \in LogOps
    /\ call.channel = <<" ", "a">>
    /\ call.messages # <<>>
    /\ Occurrences(Active, <<"a">>) >= 1
    /\ Emitted = 0

\* C10: once the module is loaded, only setChannel changes the active list:
\* log, error, debug, getActiveChannels and a change of LOG_CHANNELS leave it.
C10_OnlySetChannelWrites ==
    [][ pc = "ready" /\ Active' # Active => \E x \in FewInputs : setChannel(x) ]_vars

\* LOG_CHANNELS now parses to another list than the one loaded and kept
C10_Witness ==
    /\ call.op \in LogOps
    /\ Emitted = 1
    /\ env.kind = "set"
    /\ Active = <<Default>>
    /\ initList(env) # Active

====
